---- MODULE Spec2Model ----
(***************************************************************************)
(* Model of td/generate/tl_rust_converter.cpp: the generator that turns a  *)
(* tl::simple::Schema into Rust declarations (structures, tagged unions,   *)
(* conversions) and replaces the output file when its content changed.     *)
(*                                                                         *)
(* Text is modelled as it is built.  An identifier is a sequence of        *)
(* one-character strings; a type expression is a sequence of tokens (the   *)
(* string literals of rust_type, with identifiers spliced in character by  *)
(* character); the output buffer is the sequence of emitted lines, each a  *)
(* record naming the `sb << ...' statement that produced it (k) together   *)
(* with the values streamed into its holes.                                *)
(***************************************************************************)
EXTENDS Integers, Sequences, FiniteSets, TLC

VARIABLES schema, file, pc, run, old_file_content, sb, writes

vars == <<schema, file, pc, run, old_file_content, sb, writes>>

---------------------------------------------------------------------------
(* Bounds of the model.                                                    *)

\* most constructors of the first custom type of a drawn schema
MaxCons == 2
\* most runs of the generator on one schema
MaxRuns == 2
\* nested needs_lifetime(Type) frames the stack holds before it overflows
StackLimit == 8

---------------------------------------------------------------------------
(* Characters and identifiers.                                             *)

LowerChars == <<"a", "b", "c", "d", "e", "f", "g", "h", "i", "j", "k", "l", "m", "n", "o", "p", "q", "r", "s", "t", "u", "v", "w", "x", "y", "z">>
UpperChars == <<"A", "B", "C", "D", "E", "F", "G", "H", "I", "J", "K", "L", "M", "N", "O", "P", "Q", "R", "S", "T", "U", "V", "W", "X", "Y", "Z">>
DigitChars == {"0", "1", "2", "3", "4", "5", "6", "7", "8", "9"}

s_Shape == <<"S", "h", "a", "p", "e">>
s_shape == <<"s", "h", "a", "p", "e">>
s_Node == <<"N", "o", "d", "e">>
s_node == <<"n", "o", "d", "e">>
s_shapeCircle == <<"s", "h", "a", "p", "e", "C", "i", "r", "c", "l", "e">>
s_shapeSquare == <<"s", "h", "a", "p", "e", "S", "q", "u", "a", "r", "e">>
s_shapely == <<"s", "h", "a", "p", "e", "l", "y">>
s_circle == <<"c", "i", "r", "c", "l", "e">>
s_objectCircle == <<"o", "b", "j", "e", "c", "t", "C", "i", "r", "c", "l", "e">>
s_Object == <<"O", "b", "j", "e", "c", "t">>
s_Function == <<"F", "u", "n", "c", "t", "i", "o", "n">>
s_radius == <<"r", "a", "d", "i", "u", "s">>
s_side == <<"s", "i", "d", "e">>
s_type == <<"t", "y", "p", "e">>
s_typ == <<"t", "y", "p">>
s_user_id == <<"u", "s", "e", "r", "_", "i", "d">>
s_getShape == <<"g", "e", "t", "S", "h", "a", "p", "e">>
s_functionCall == <<"f", "u", "n", "c", "t", "i", "o", "n", "C", "a", "l", "l">>
s_id == <<"i", "d">>
s_count == <<"c", "o", "u", "n", "t">>
s_big == <<"b", "i", "g">>
s_flag == <<"f", "l", "a", "g">>
s_ShapeCircle == <<"S", "h", "a", "p", "e", "C", "i", "r", "c", "l", "e">>
s_ShapeSquare == <<"S", "h", "a", "p", "e", "S", "q", "u", "a", "r", "e">>
s_Shapely == <<"S", "h", "a", "p", "e", "l", "y">>
s_Circle == <<"C", "i", "r", "c", "l", "e">>
s_Square == <<"S", "q", "u", "a", "r", "e">>

isupper(c) == \E i \in 1..Len(UpperChars) : UpperChars[i] = c

toupper(c) ==
  IF \E i \in 1..Len(LowerChars) : LowerChars[i] = c
    THEN UpperChars[CHOOSE i \in 1..Len(LowerChars) : LowerChars[i] = c]
    ELSE c

isalnum(c) ==
  \/ \E i \in 1..Len(LowerChars) : LowerChars[i] = c
  \/ isupper(c)
  \/ c \in DigitChars

\* std::string::operator[]: str[size()] is the terminating '\0'
CharAt(str, i) == IF i <= Len(str) THEN str[i] ELSE "\\0"

remove_prefix_no_upper_check(str, prefix) ==
  IF Len(prefix) >= Len(str)
    THEN str
    ELSE IF SubSeq(str, 1, Len(prefix)) = prefix
           THEN SubSeq(str, Len(prefix) + 1, Len(str))
           ELSE str

remove_prefix(str, prefix) ==
  IF Len(prefix) >= Len(str)
    THEN str
    ELSE IF SubSeq(str, 1, Len(prefix)) = prefix /\ isupper(CharAt(str, Len(prefix) + 1))
           THEN SubSeq(str, Len(prefix) + 1, Len(str))
           ELSE str

capitalize_first_all(str) == [i \in 1..Len(str) |-> toupper(str[i])]

\* std::transform over [begin, begin + 1): the first character only
capitalize_first(str) == <<toupper(str[1])>> \o Tail(str)

\* tl::simple::gen_cpp_name: every character that is no letter and no digit
\* becomes '_'
gen_cpp_name(name) == [i \in 1..Len(name) |-> IF isalnum(name[i]) THEN name[i] ELSE "_"]

---------------------------------------------------------------------------
(* tl::simple types.  A Type is a record: type is the tag; a Custom type   *)
(* holds custom, the index of the CustomType in schema.custom_types (the   *)
(* pointer); a Vector holds vector_value_type.  The tag "Unknown" stands   *)
(* for a value of the enumeration that names none of its enumerators.      *)

Prim(tag) == [type |-> tag]
Custom(i) == [type |-> "Custom", custom |-> i]
Vector(t) == [type |-> "Vector", vector_value_type |-> t]
Arg(name, type) == [name |-> name, type |-> type]

\* nullptr for a CustomType pointer
NullCustom == 0

---------------------------------------------------------------------------
(* Lifetime analyzer: the four needs_lifetime overloads.  The recursion    *)
(* keeps no record of the custom types it is inside of; fuel is the number *)
(* of needs_lifetime(Type) frames the stack still holds, and "overflow" is *)
(* the recursion running out of stack.                                     *)

RECURSIVE needs_lifetime_type(_, _, _)
RECURSIVE needs_lifetime_args(_, _, _)
RECURSIVE needs_lifetime_conslist(_, _, _)

needs_lifetime_args(S, arglist, fuel) ==
  IF arglist = <<>>
    THEN "false"
    ELSE LET r == needs_lifetime_type(S, Head(arglist).type, fuel)
         IN IF r = "false" THEN needs_lifetime_args(S, Tail(arglist), fuel) ELSE r

needs_lifetime_conslist(S, conslist, fuel) ==
  IF conslist = <<>>
    THEN "false"
    ELSE LET r == needs_lifetime_args(S, Head(conslist).args, fuel)
         IN IF r = "false" THEN needs_lifetime_conslist(S, Tail(conslist), fuel) ELSE r

needs_lifetime_type(S, type, fuel) ==
  IF fuel = 0
    THEN "overflow"
    ELSE CASE type.type \in {"Bytes", "String"} -> "true"
           [] type.type = "Vector" -> needs_lifetime_type(S, type.vector_value_type, fuel - 1)
           [] type.type = "Custom" ->
                needs_lifetime_conslist(S, S.custom_types[type.custom].constructors, fuel - 1)
           [] OTHER -> "false"

---------------------------------------------------------------------------
(* Type projector.                                                         *)

RECURSIVE rust_type(_, _, _)

rust_type_box_always(S, type, parent) ==
  CASE type.type = "Bytes" -> <<"Option<&'a [u8]>">>
    [] type.type = "Bool" -> <<"bool">>
    [] type.type \in {"Int64", "Int53"} -> <<"i64">>
    [] type.type = "Int32" -> <<"i32">>
    [] type.type = "Double" -> <<"f64">>
    [] type.type = "String" -> <<"Option<Cow<'a, str>>">>
    [] type.type = "Vector" -> <<"Vec<">> \o rust_type(S, type.vector_value_type, parent) \o <<">">>
    [] type.type = "Custom" ->
         LET name0 == S.custom_types[type.custom].name
             name1 == IF needs_lifetime_type(S, type, StackLimit) = "true"
                        THEN name0 \o <<"<'a>">>
                        ELSE name0
         IN <<"Option<", "Box<">> \o name1 \o <<">", ">">>
    [] OTHER -> <<"unimplemented">>

\* rust_type(const Type &, const CustomType *parent = nullptr)
rust_type(S, type, parent) ==
  CASE type.type = "Bytes" -> <<"Option<&'a [u8]>">>
    [] type.type = "Bool" -> <<"bool">>
    [] type.type \in {"Int64", "Int53"} -> <<"i64">>
    [] type.type = "Int32" -> <<"i32">>
    [] type.type = "Double" -> <<"f64">>
    [] type.type = "String" -> <<"Option<Cow<'a, str>>">>
    [] type.type = "Vector" ->
         \* the element is projected with the default parent
         <<"Vec<">> \o rust_type(S, type.vector_value_type, NullCustom) \o <<">">>
    [] type.type = "Custom" ->
         LET name0 == S.custom_types[type.custom].name
             name1 == IF needs_lifetime_type(S, type, StackLimit) = "true"
                        THEN name0 \o <<"<'a>">>
                        ELSE name0
             name2 == IF parent # NullCustom /\ type.custom = parent
                        THEN <<"Box<">> \o name1 \o <<">">>
                        ELSE name1
         IN <<"Option<">> \o name2 \o <<">">>
    [] OTHER -> <<"unimplemented">>

\* rust_type(const Type &, const Type *parent = nullptr): the parent's custom
\* type when the parent is a Custom type.  parent is <<>> for nullptr, <<t>>
\* for a pointer to t.
rust_type_of_parent_type(S, type, parent) ==
  LET pc_type == IF parent # <<>> /\ parent[1].type = "Custom"
                   THEN parent[1].custom
                   ELSE NullCustom
  IN rust_type(S, type, pc_type)

\* the needs_lifetime calls rust_type makes, outermost first
RECURSIVE rust_type_calls(_, _)
rust_type_calls(S, type) ==
  CASE type.type = "Vector" -> rust_type_calls(S, type.vector_value_type)
    [] type.type = "Custom" -> <<needs_lifetime_type(S, type, StackLimit)>>
    [] OTHER -> <<>>

rust_field_attr(S, type) ==
  IF type.type = "String"
    THEN "#[serde(borrow, deserialize_with=\"crate::cow_de::de_opt_cow_str\")]"
    ELSE IF needs_lifetime_type(S, type, StackLimit) = "true"
           THEN "#[serde(borrow)]"
           ELSE ""

rust_field_attr_calls(S, type) ==
  IF type.type = "String" THEN <<>> ELSE <<needs_lifetime_type(S, type, StackLimit)>>

---------------------------------------------------------------------------
(* Struct emitter.  A constructor is [name, args, type] with type the      *)
(* index of its CustomType; a function is [name, args, type] with type its *)
(* result Type.  is_function selects the rust_type overload that           *)
(* constructor.type resolves.                                              *)

RECURSIVE Flatten(_)
Flatten(seqs) == IF seqs = <<>> THEN <<>> ELSE Head(seqs) \o Flatten(Tail(seqs))

projected_type(S, constructor, is_function, type) ==
  IF is_function
    THEN rust_type_of_parent_type(S, type, <<constructor.type>>)
    ELSE rust_type(S, type, constructor.type)

gen_rust_field(S, constructor, is_function, arg) ==
  LET cpp_name == gen_cpp_name(arg.name)
      renamed == cpp_name = s_type
      field_name == IF renamed THEN s_typ ELSE cpp_name
      type_attrs == rust_field_attr(S, arg.type)
  IN (IF renamed THEN <<[k |-> "serde_rename", rename |-> s_type]>> ELSE <<>>)
     \o (IF type_attrs # "" THEN <<[k |-> "field_attr", attr |-> type_attrs]>> ELSE <<>>)
     \o <<[k |-> "field", name |-> field_name,
           type |-> projected_type(S, constructor, is_function, arg.type)]>>

gen_rust_struct(S, constructor, is_function) ==
  LET capitalized == capitalize_first(constructor.name)
  IN IF Len(constructor.args) = 0
       THEN <<[k |-> "struct_unit", name |-> capitalized]>>
       ELSE <<[k |-> "struct_open", name |-> capitalized,
               lt |-> needs_lifetime_args(S, constructor.args, StackLimit) = "true"]>>
            \o Flatten([i \in 1..Len(constructor.args) |->
                          gen_rust_field(S, constructor, is_function, constructor.args[i])])
            \o <<[k |-> "struct_close"]>>

gen_rust_struct_calls(S, constructor) ==
  IF Len(constructor.args) = 0
    THEN <<>>
    ELSE <<needs_lifetime_args(S, constructor.args, StackLimit)>>
         \o Flatten([i \in 1..Len(constructor.args) |->
                       rust_field_attr_calls(S, constructor.args[i].type)
                       \o rust_type_calls(S, constructor.args[i].type)])

\* every constructor of every custom type, in schema order
AllConstructors(S) == Flatten([i \in 1..Len(S.custom_types) |-> S.custom_types[i].constructors])

gen_rust_structs(S) ==
  <<[k |-> "mod_types_open"]>>
  \o Flatten([i \in 1..Len(AllConstructors(S)) |->
                LET constructor == AllConstructors(S)[i]
                IN <<[k |-> "super_type", name |-> S.custom_types[constructor.type].name]>>
                   \o gen_rust_struct(S, constructor, FALSE)])
  \o <<[k |-> "mod_close"]>>
  \o <<[k |-> "mod_functions_open"]>>
  \o Flatten([i \in 1..Len(S.functions) |-> gen_rust_struct(S, S.functions[i], TRUE)])
  \o <<[k |-> "mod_close"]>>

gen_rust_structs_calls(S) ==
  Flatten([i \in 1..Len(AllConstructors(S)) |-> gen_rust_struct_calls(S, AllConstructors(S)[i])])
  \o Flatten([i \in 1..Len(S.functions) |-> gen_rust_struct_calls(S, S.functions[i])])

---------------------------------------------------------------------------
(* Enum emitter.                                                           *)

variant_line(S, name, cons) ==
  LET capitalized == capitalize_first(cons.name)
      variant_name == remove_prefix(capitalized, name)
      arg_needs_lifetime == needs_lifetime_args(S, cons.args, StackLimit) = "true"
  IN [k |-> "variant", rename |-> cons.name, variant |-> variant_name,
      borrow |-> arg_needs_lifetime, payload |-> capitalized,
      payload_lt |-> needs_lifetime_args(S, cons.args, StackLimit) = "true"]

from_line(S, name, ty_needs_lifetime, cons) ==
  LET capitalized == capitalize_first(cons.name)
      variant_name == remove_prefix(capitalized, name)
      arg_needs_lifetime == needs_lifetime_args(S, cons.args, StackLimit) = "true"
  IN [k |-> "impl_from", impl_lt |-> ty_needs_lifetime, payload |-> capitalized,
      payload_lt |-> arg_needs_lifetime, target |-> name, target_lt |-> ty_needs_lifetime,
      variant |-> variant_name]

\* the TryFrom<Object> impl: one arm per constructor, then the arm that hands
\* an unmatched value back
try_from_object(name, ty_needs_lifetime, vec) ==
  <<[k |-> "try_from_open", object_lt |-> TRUE, target |-> name,
     target_lt |-> ty_needs_lifetime]>>
  \o [i \in 1..Len(vec) |->
        LET capitalized == capitalize_first(vec[i].name)
        IN [k |-> "try_from_arm", object_variant |-> capitalized,
            variant |-> remove_prefix(capitalized, name)]]
  \o <<[k |-> "try_from_rest", result |-> "Result::Err(v)"], [k |-> "try_from_close"]>>

into_object(name, ty_needs_lifetime, vec) ==
  <<[k |-> "into_open", object_lt |-> TRUE, target |-> name,
     target_lt |-> ty_needs_lifetime]>>
  \o [i \in 1..Len(vec) |->
        LET capitalized == capitalize_first(vec[i].name)
        IN [k |-> "into_arm", variant |-> remove_prefix(capitalized, name),
            object_variant |-> capitalized]]
  \o <<[k |-> "into_close"]>>

\* template <class T> gen_rust_enums(sb, name, vec, generate_from_object)
gen_rust_enum(S, name, vec, generate_from_object) ==
  LET ty_needs_lifetime == needs_lifetime_conslist(S, vec, StackLimit) = "true"
  IN <<[k |-> "enum_open", name |-> name, lt |-> ty_needs_lifetime]>>
     \o [i \in 1..Len(vec) |-> variant_line(S, name, vec[i])]
     \o <<[k |-> "enum_close"]>>
     \o [i \in 1..Len(vec) |-> from_line(S, name, ty_needs_lifetime, vec[i])]
     \o (IF generate_from_object
           THEN try_from_object(name, ty_needs_lifetime, vec)
                \o into_object(name, ty_needs_lifetime, vec)
           ELSE <<>>)
     \o <<[k |-> "enum_end"]>>

gen_rust_enum_calls(S, vec) ==
  <<needs_lifetime_conslist(S, vec, StackLimit)>>
  \o [i \in 1..Len(vec) |-> needs_lifetime_args(S, vec[i].args, StackLimit)]

generate_from_object_never == FALSE

\* generate_from_object as gen_rust_enums(sb, schema) passes it for the union
\* of a custom type (true), and its default, which the calls for Object and
\* Function leave in place (false)
generate_from_object_for_type == TRUE
generate_from_object_default == FALSE

has_own_enum_nonempty(custom_type) == Len(custom_type.constructors) > 0

\* the custom types that get a union of their own (vec.size() > 1)
has_own_enum(custom_type) == Len(custom_type.constructors) > 1

\* gen_rust_enums(sb, schema)
gen_rust_enums(S) ==
  <<[k |-> "mod_dynamic_open"]>>
  \o Flatten([i \in 1..Len(S.custom_types) |->
                IF has_own_enum(S.custom_types[i])
                  THEN gen_rust_enum(S, gen_cpp_name(S.custom_types[i].name),
                                     S.custom_types[i].constructors, generate_from_object_for_type)
                  ELSE <<>>])
  \o gen_rust_enum(S, s_Object, AllConstructors(S), generate_from_object_default)
  \o gen_rust_enum(S, s_Function, S.functions, generate_from_object_default)
  \o <<[k |-> "mod_close"]>>

gen_rust_enums_calls(S) ==
  Flatten([i \in 1..Len(S.custom_types) |->
             IF has_own_enum(S.custom_types[i])
               THEN gen_rust_enum_calls(S, S.custom_types[i].constructors)
               ELSE <<>>])
  \o gen_rust_enum_calls(S, AllConstructors(S))
  \o gen_rust_enum_calls(S, S.functions)

\* a needs_lifetime call among calls never returned
Overflows(calls) == \E i \in 1..Len(calls) : calls[i] = "overflow"

---------------------------------------------------------------------------
(* File assembler: the output file and the read-compare-write around the   *)
(* generation.  A file is [exists, readable, content]; read_file fails on  *)
(* a file that is absent or cannot be read, write_file creates or          *)
(* truncates the file and leaves the permissions of an existing file.      *)

file_header == <<[k |-> "file_header"]>>

\* BufferSlice(): the empty content a failed read is replaced by
EmptyBuffer == <<>>

read_file_is_error(f) == ~f.exists \/ ~f.readable

read_old_file_content(f) == IF read_file_is_error(f) THEN EmptyBuffer ELSE f.content

write_file(f, content) ==
  [exists |-> TRUE, readable |-> IF f.exists THEN f.readable ELSE TRUE, content |-> content]

content_always_differs(new_file_content, old) == TRUE

\* new_file_content != old_file_content.as_slice()
content_differs(new_file_content, old) == new_file_content # old

---------------------------------------------------------------------------
(* The schemas and the prior files the generator is run on.                *)

ConsNameTable == <<s_shapeCircle, s_shapeSquare, s_shapely, s_shape>>

\* the name of the j-th constructor of the first custom type
ConsNameAt(j) ==
  IF j <= Len(ConsNameTable)
    THEN ConsNameTable[j]
    ELSE s_shapeCircle \o [i \in 1..(j - Len(ConsNameTable)) |-> "x"]

\* the name of the k-th field of the j-th constructor of a type
FieldNameAt(j, k) ==
  IF k = 1
    THEN (IF j = 1 THEN s_radius ELSE IF j = 2 THEN s_side ELSE s_user_id)
    ELSE IF k = 2 THEN s_type ELSE s_user_id \o [i \in 1..(k - 2) |-> "x"]

\* a constructor of custom type t, the j-th of its type, with the given
\* field types
MakeConstructor(t, j, name, types) ==
  [name |-> name, type |-> t,
   args |-> [k \in 1..Len(types) |-> Arg(FieldNameAt(j, k), types[k])]]

\* Schemas that vary the field types.  The first custom type, Shape, has up
\* to MaxCons constructors, each with one of SubjectArgTypes; the second,
\* Node, has no constructor or one.
SubjectArgTypes ==
  { <<>>, <<Prim("Double")>>, <<Prim("String")>>, <<Custom(1)>>, <<Custom(2)>>,
    <<Vector(Custom(1))>>, <<Prim("Unknown")>>, <<Prim("Bytes"), Custom(1)>>,
    <<Custom(1), Prim("String")>> }

HelperConstructors ==
  { <<>>, <<MakeConstructor(2, 1, s_node, <<Prim("String")>>)>>,
    <<MakeConstructor(2, 1, s_node, <<Custom(1)>>)>> }

getShape ==
  [name |-> s_getShape, type |-> Custom(1),
   args |-> <<Arg(s_id, Prim("Int32")), Arg(s_count, Prim("Int53")),
              Arg(s_big, Prim("Int64")), Arg(s_flag, Prim("Bool")),
              Arg(s_shape, Custom(1))>>]

functionCall == [name |-> s_functionCall, type |-> Prim("Bool"), args |-> <<>>]

FunctionLists == { <<>>, <<getShape>>, <<functionCall>> }

TypingSchemas ==
  UNION { { [custom_types |->
               <<[name |-> s_Shape,
                  constructors |->
                    [j \in 1..n |-> MakeConstructor(1, j, ConsNameAt(j), types[j])]],
                 [name |-> s_Node, constructors |-> helper]>>,
             functions |-> functions] :
              types \in [1..n -> SubjectArgTypes], helper \in HelperConstructors,
              functions \in FunctionLists } :
          n \in 0..MaxCons }

\* Schemas that vary the names.  One custom type, named shape or Shape, with
\* up to MaxCons constructors of pairwise distinct names; the first has the
\* field radius: Double, the second side: Double, the others none.
TypeNamePool == {s_shape, s_Shape}

ConsNamePool == {s_shapeCircle, s_shapeSquare, s_shapely, s_shape, s_circle, s_objectCircle}

NamingArgTypes(j) == IF j <= 2 THEN <<Prim("Double")>> ELSE <<>>

NamingSchemas ==
  UNION { { [custom_types |->
               <<[name |-> type_name,
                  constructors |->
                    [j \in 1..n |-> MakeConstructor(1, j, names[j], NamingArgTypes(j))]]>>,
             functions |-> functions] :
              type_name \in TypeNamePool,
              names \in {f \in [1..n -> ConsNamePool] :
                           \A i, j \in 1..n : i # j => f[i] # f[j]},
              functions \in {<<>>, <<functionCall>>} } :
          n \in 0..MaxCons }

StaleContent == <<[k |-> "stale"]>>

AbsentFile == [exists |-> FALSE, readable |-> FALSE, content |-> EmptyBuffer]
UnreadableFile == [exists |-> TRUE, readable |-> FALSE, content |-> StaleContent]
StaleFile == [exists |-> TRUE, readable |-> TRUE, content |-> StaleContent]

PriorFiles == {AbsentFile, UnreadableFile, StaleFile}

---------------------------------------------------------------------------
(* The generator as a state machine: gen_rust_file, step by step, on the   *)
(* schema and the file drawn at the start; a run that is done can be       *)
(* followed by another on the same schema.                                 *)

Init ==
  /\ \/ schema \in TypingSchemas /\ file \in PriorFiles
     \/ schema \in NamingSchemas /\ file = AbsentFile
  /\ pc = "read"
  /\ run = 1
  /\ old_file_content = EmptyBuffer
  /\ sb = <<>>
  /\ writes = 0

\* what becomes of a run whose needs_lifetime recursion never returns: the
\* stack overflows, or the build has turned the recursion into a loop
DivergedStates == {"stack_overflow", "hang"}

\* read the prior content, then start the buffer with the header.  (The
\* buffer's capacity of 2000000 characters is far from reached by the schemas
\* drawn here; on Windows the buffer gets a carriage return before every line feed before it
\* is compared and written, which no emitted line depends on.)
ReadOldFile ==
  /\ pc = "read"
  /\ old_file_content' = read_old_file_content(file)
  /\ sb' = file_header
  /\ pc' = "enums"
  /\ UNCHANGED <<schema, file, run, writes>>

\* gen_rust_enums(sb, schema), unless a needs_lifetime call of it never returns
GenRustEnums ==
  /\ pc = "enums"
  /\ IF Overflows(gen_rust_enums_calls(schema))
       THEN pc' \in DivergedStates /\ UNCHANGED sb
       ELSE sb' = sb \o gen_rust_enums(schema) /\ pc' = "structs"
  /\ UNCHANGED <<schema, file, run, old_file_content, writes>>

\* gen_rust_structs(sb, schema), unless a needs_lifetime call of it never returns
GenRustStructs ==
  /\ pc = "structs"
  /\ IF Overflows(gen_rust_structs_calls(schema))
       THEN pc' \in DivergedStates /\ UNCHANGED sb
       ELSE sb' = sb \o gen_rust_structs(schema) /\ pc' = "compare"
  /\ UNCHANGED <<schema, file, run, old_file_content, writes>>

\* the content changed and write_file succeeds
WriteFile ==
  /\ pc = "compare"
  /\ content_differs(sb, old_file_content)
  /\ file' = write_file(file, sb)
  /\ writes' = writes + 1
  /\ pc' = "done"
  /\ UNCHANGED <<schema, run, old_file_content, sb>>

\* the content changed and write_file fails: ensure() aborts the run
WriteFileFails ==
  /\ pc = "compare"
  /\ content_differs(sb, old_file_content)
  /\ pc' = "fatal"
  /\ UNCHANGED <<schema, file, run, old_file_content, sb, writes>>

\* the content is the one read at the start: nothing is written
KeepFile ==
  /\ pc = "compare"
  /\ ~content_differs(sb, old_file_content)
  /\ pc' = "done"
  /\ UNCHANGED <<schema, file, run, old_file_content, sb, writes>>

\* main runs again on the same schema: a new process, a fresh buffer
Rerun ==
  /\ pc = "done"
  /\ run < MaxRuns
  /\ run' = run + 1
  /\ pc' = "read"
  /\ old_file_content' = EmptyBuffer
  /\ sb' = <<>>
  /\ writes' = 0
  /\ UNCHANGED <<schema, file>>

Next ==
  \/ ReadOldFile
  \/ GenRustEnums
  \/ GenRustStructs
  \/ WriteFile
  \/ WriteFileFails
  \/ KeepFile
  \/ Rerun

Spec == Init /\ [][Next]_vars

---------------------------------------------------------------------------
(* Reading the emitted buffer back.                                        *)

\* the buffer of the run is complete: both modules were emitted
Complete == pc \in {"compare", "done", "fatal"}

\* the least index from i on of a line of the given kind
NextOfKind(b, i, kind) ==
  CHOOSE j \in i..Len(b) : b[j].k = kind /\ \A m \in i..(j - 1) : b[m].k # kind

OfKind(lines, kind) == SelectSeq(lines, LAMBDA r : r.k = kind)

\* the unions of a buffer in order, each from its declaration to the end of
\* its impls
RECURSIVE EnumBlocksFrom(_, _)
EnumBlocksFrom(b, i) ==
  IF i > Len(b)
    THEN <<>>
    ELSE IF b[i].k = "enum_open"
           THEN <<SubSeq(b, i, NextOfKind(b, i, "enum_end"))>>
                \o EnumBlocksFrom(b, NextOfKind(b, i, "enum_end") + 1)
           ELSE EnumBlocksFrom(b, i + 1)

EnumBlocks(b) == EnumBlocksFrom(b, 1)

\* the structures of a buffer in order, each from its declaration to its end
RECURSIVE StructBlocksFrom(_, _)
StructBlocksFrom(b, i) ==
  IF i > Len(b)
    THEN <<>>
    ELSE IF b[i].k = "struct_unit"
           THEN <<<<b[i]>>>> \o StructBlocksFrom(b, i + 1)
           ELSE IF b[i].k = "struct_open"
                  THEN <<SubSeq(b, i, NextOfKind(b, i, "struct_close"))>>
                       \o StructBlocksFrom(b, NextOfKind(b, i, "struct_close") + 1)
                  ELSE StructBlocksFrom(b, i + 1)

StructBlocks(b) == StructBlocksFrom(b, 1)

Tokens(text) == {text[i] : i \in 1..Len(text)}

\* sub occurs in text as a run of consecutive tokens
ContainsSeq(text, sub) ==
  \E p \in 0..(Len(text) - Len(sub)) : SubSeq(text, p + 1, p + Len(sub)) = sub

\* the variants a union declares, as <<variant name, payload name>>
VariantsOf(block) ==
  [i \in 1..Len(OfKind(block, "variant")) |->
     <<OfKind(block, "variant")[i].variant, OfKind(block, "variant")[i].payload>>]

\* the constructors and then the functions of a schema: the structures of a
\* buffer are theirs, in this order
Holders(S) == AllConstructors(S) \o S.functions

TypeName(S, t) == S.custom_types[t].name

---------------------------------------------------------------------------
(* Claims.                                                                 *)

\* C1: needs_lifetime terminates for every schema, cyclic ones included:
\* every query a run makes returns a boolean, so that no run ends inside a
\* needs_lifetime recursion that did not return.
C1_NeedsLifetimeReturns ==
  pc \notin {"read", "enums"} =>
    /\ pc \notin DivergedStates
    /\ \A t \in 1..Len(schema.custom_types) :
         needs_lifetime_type(schema, Custom(t), StackLimit) \in {"true", "false"}

\* prefix is a proper or improper prefix of str
StartsWith(str, prefix) ==
  /\ Len(prefix) <= Len(str)
  /\ \A i \in 1..Len(prefix) : str[i] = prefix[i]

UpperSet == {UpperChars[i] : i \in 1..Len(UpperChars)}

\* what the claim says stripPrefix returns
StripPrefixClaimed(name, prefix) ==
  IF \/ Len(prefix) >= Len(name)
     \/ ~StartsWith(name, prefix)
     \/ name[Len(prefix) + 1] \notin UpperSet
    THEN name
    ELSE [i \in 1..(Len(name) - Len(prefix)) |-> name[Len(prefix) + i]]

\* C8: stripPrefix(name, prefix) returns name unchanged when prefix is not
\* shorter than name, when name does not start with prefix, or when the
\* character after the prefix is not uppercase, and the suffix after the
\* prefix otherwise.  Checked on every variant of every emitted union: the
\* variant name is stripPrefix(payload name, union name), so that
\* ShapeCircle under Shape is Circle, and Circle and Shapely under Shape are
\* unchanged.
C8_StripPrefix ==
  Complete =>
    \A e \in 1..Len(EnumBlocks(sb)) :
      LET block == EnumBlocks(sb)[e]
          variants == OfKind(block, "variant")
      IN \A v \in 1..Len(variants) :
           /\ variants[v].variant = StripPrefixClaimed(variants[v].payload, block[1].name)
           /\ block[1].name = s_Shape =>
                /\ variants[v].payload = s_ShapeCircle => variants[v].variant = s_Circle
                /\ variants[v].payload = s_Circle => variants[v].variant = s_Circle
                /\ variants[v].payload = s_Shapely => variants[v].variant = s_Shapely
                /\ variants[v].payload = s_Shape => variants[v].variant = s_Shape

\* a run emitted a union Shape in which ShapeCircle was stripped to Circle
\* and Shapely, with a lowercase letter after the prefix, was kept
C8_Witness ==
  /\ Complete
  /\ \E e \in 1..Len(EnumBlocks(sb)) :
       /\ EnumBlocks(sb)[e][1].name = s_Shape
       /\ <<s_Circle, s_ShapeCircle>> \in Tokens(VariantsOf(EnumBlocks(sb)[e]))
       /\ <<s_Shapely, s_Shapely>> \in Tokens(VariantsOf(EnumBlocks(sb)[e]))

\* the names of the unions of a buffer, in order
EnumNames(b) == [e \in 1..Len(EnumBlocks(b)) |-> EnumBlocks(b)[e][1].name]

\* C7: the unions emitted are exactly one per custom type with at least two
\* constructors, named after the type, then Object and Function, both also
\* when they have no variant; a custom type without constructors emits
\* nothing, and a custom type with one constructor emits its structure and
\* no union: the structures of the types module are one per constructor.
C7_UnionsEmitted ==
  Complete =>
    /\ EnumNames(sb) =
         [i \in 1..Len(SelectSeq(schema.custom_types, LAMBDA c : Len(c.constructors) >= 2)) |->
            SelectSeq(schema.custom_types, LAMBDA c : Len(c.constructors) >= 2)[i].name]
         \o <<s_Object, s_Function>>
    /\ [i \in 1..Len(OfKind(sb, "super_type")) |-> OfKind(sb, "super_type")[i].name] =
         [i \in 1..Len(AllConstructors(schema)) |->
            TypeName(schema, AllConstructors(schema)[i].type)]
    /\ Len(StructBlocks(sb)) = Len(Holders(schema))

\* a run emitted the unions of a schema with a custom type of two
\* constructors and a custom type of one, and no function
C7_Witness ==
  /\ pc = "done"
  /\ Len(schema.custom_types) = 2
  /\ Len(schema.custom_types[1].constructors) = 2
  /\ Len(schema.custom_types[2].constructors) = 1
  /\ schema.functions = <<>>
  /\ EnumNames(sb) = <<s_Shape, s_Object, s_Function>>
  /\ Len(StructBlocks(sb)) = 3

\* the union of a block is one of the two synthetic unions
IsSynthetic(b, e) == e > Len(EnumBlocks(b)) - 2

HasTryFrom(block) == OfKind(block, "try_from_open") # <<>>
HasInto(block) == OfKind(block, "into_open") # <<>>

\* every variant of the union has its wrap-and-tag From conversion
HasFromPerVariant(block) ==
  [i \in 1..Len(OfKind(block, "impl_from")) |->
     <<OfKind(block, "impl_from")[i].variant, OfKind(block, "impl_from")[i].payload>>]
    = VariantsOf(block)

\* C3, as claimed: TryFrom<Object> and Into<Object> are emitted for exactly
\* the two synthetic unions Object and Function and for no per-type union;
\* every per-type union has only the per-variant From conversions.
C3_Original ==
  Complete =>
    \A e \in 1..Len(EnumBlocks(sb)) :
      LET block == EnumBlocks(sb)[e]
      IN /\ HasFromPerVariant(block)
         /\ HasTryFrom(block) <=> IsSynthetic(sb, e)
         /\ HasInto(block) <=> IsSynthetic(sb, e)

\* C3, amended: TryFrom<Object>, whose unmatched case returns the original
\* value, and Into<Object> are emitted for exactly the per-type unions and
\* for neither synthetic union; every union has the per-variant From
\* conversions, and the two synthetic unions have only those.
C3_FromObjectOnPerTypeUnions ==
  Complete =>
    \A e \in 1..Len(EnumBlocks(sb)) :
      LET block == EnumBlocks(sb)[e]
      IN /\ HasFromPerVariant(block)
         /\ HasTryFrom(block) <=> ~IsSynthetic(sb, e)
         /\ HasInto(block) <=> ~IsSynthetic(sb, e)
         /\ HasTryFrom(block) =>
              /\ Len(OfKind(block, "try_from_arm")) = Len(OfKind(block, "variant"))
              /\ Len(OfKind(block, "into_arm")) = Len(OfKind(block, "variant"))
              /\ OfKind(block, "try_from_rest") = <<[k |-> "try_from_rest", result |-> "Result::Err(v)"]>>
         /\ (e = Len(EnumBlocks(sb)) - 1) => block[1].name = s_Object
         /\ (e = Len(EnumBlocks(sb))) => block[1].name = s_Function

\* a run emitted a per-type union with its conversions from and to Object,
\* and an Object and a Function union that have variants
C3_Witness ==
  /\ pc = "done"
  /\ Len(EnumBlocks(sb)) = 3
  /\ HasTryFrom(EnumBlocks(sb)[1]) /\ HasInto(EnumBlocks(sb)[1])
  /\ OfKind(EnumBlocks(sb)[2], "variant") # <<>>
  /\ OfKind(EnumBlocks(sb)[3], "variant") # <<>>

\* the schema of the scenario: one custom type with the constructors
\* shapeCircle{radius: Double} and shapeSquare{side: Double}, no function
ShapeSchema(type_name) ==
  [custom_types |->
     <<[name |-> type_name,
        constructors |-> <<MakeConstructor(1, 1, s_shapeCircle, <<Prim("Double")>>),
                           MakeConstructor(1, 2, s_shapeSquare, <<Prim("Double")>>)>>]>>,
   functions |-> <<>>]

\* the lines of a structure with one f64 field and no lifetime parameter
StructWithDouble(name, field) ==
  <<[k |-> "struct_open", name |-> name, lt |-> FALSE],
    [k |-> "field", name |-> field, type |-> <<"f64">>],
    [k |-> "struct_close"]>>

\* C6, as claimed: for the custom type shape with the constructors
\* shapeCircle{radius: Double} and shapeSquare{side: Double} and no function,
\* the generator emits a union Shape with the variants Circle(Circle) and
\* Square(Square), the structures Circle{radius: f64} and Square{side: f64},
\* an Object union with the variants Circle and Square, and a Function union
\* without variants.
C6_Original ==
  (Complete /\ schema = ShapeSchema(s_shape)) =>
    /\ EnumNames(sb) = <<s_Shape, s_Object, s_Function>>
    /\ VariantsOf(EnumBlocks(sb)[1]) = <<<<s_Circle, s_Circle>>, <<s_Square, s_Square>>>>
    /\ StructBlocks(sb) = <<StructWithDouble(s_Circle, s_radius),
                            StructWithDouble(s_Square, s_side)>>
    /\ [i \in 1..2 |-> VariantsOf(EnumBlocks(sb)[2])[i][1]] = <<s_Circle, s_Square>>
    /\ VariantsOf(EnumBlocks(sb)[3]) = <<>>

\* C6, amended: for that schema the generator emits a union named as the
\* type is written, shape, with the variants ShapeCircle(ShapeCircle) and
\* ShapeSquare(ShapeSquare) (for a type written Shape: a union Shape with
\* the variants Circle(ShapeCircle) and Square(ShapeSquare)); the structures
\* ShapeCircle{radius: f64} and ShapeSquare{side: f64}; an Object union with
\* the variants ShapeCircle(ShapeCircle) and ShapeSquare(ShapeSquare); and a
\* Function union without variants.
C6_ShapeScenario ==
  \A type_name \in {s_shape, s_Shape} :
    (Complete /\ schema = ShapeSchema(type_name)) =>
      /\ EnumNames(sb) = <<type_name, s_Object, s_Function>>
      /\ VariantsOf(EnumBlocks(sb)[1]) =
           IF type_name = s_Shape
             THEN <<<<s_Circle, s_ShapeCircle>>, <<s_Square, s_ShapeSquare>>>>
             ELSE <<<<s_ShapeCircle, s_ShapeCircle>>, <<s_ShapeSquare, s_ShapeSquare>>>>
      /\ StructBlocks(sb) = <<StructWithDouble(s_ShapeCircle, s_radius),
                              StructWithDouble(s_ShapeSquare, s_side)>>
      /\ VariantsOf(EnumBlocks(sb)[2]) =
           <<<<s_ShapeCircle, s_ShapeCircle>>, <<s_ShapeSquare, s_ShapeSquare>>>>
      /\ VariantsOf(EnumBlocks(sb)[3]) = <<>>
      /\ OfKind(EnumBlocks(sb)[3], "enum_open") = <<[k |-> "enum_open", name |-> s_Function, lt |-> FALSE]>>

\* a run on the scenario's schema wrote its output
C6_Witness ==
  /\ pc = "done"
  /\ schema = ShapeSchema(s_shape)
  /\ file.content = sb
  /\ Len(EnumBlocks(sb)) = 3

\* the type expression emitted for the k-th field of the i-th structure
FieldType(b, i, k) == OfKind(StructBlocks(b)[i], "field")[k].type

\* the type expression boxes the reference to the custom type t
BoxesReference(S, text, t) == ContainsSeq(text, <<"Box<">> \o TypeName(S, t))

\* C2, as claimed: a field of type Custom(C) or Vector(Custom(C)) of a
\* constructor of C is projected with a Box around the reference to C, and a
\* Custom(D) field with D not the enclosing type is never boxed.
C2_Original ==
  Complete =>
    \A i \in 1..Len(AllConstructors(schema)) :
      LET c == AllConstructors(schema)[i]
      IN \A k \in 1..Len(c.args) :
           /\ c.args[k].type \in {Custom(c.type), Vector(Custom(c.type))}
                => BoxesReference(schema, FieldType(sb, i, k), c.type)
           /\ (c.args[k].type.type = "Custom" /\ c.args[k].type.custom # c.type)
                => "Box<" \notin Tokens(FieldType(sb, i, k))

\* C2, amended: a field of type Custom(C) of a constructor of C is projected
\* with a Box around the reference to C; a field of type Vector(Custom(C))
\* is projected as a Vec of the optional reference, without a Box; and a
\* Custom(D) field with D not the enclosing type is never boxed.
C2_BoxOnDirectSelfReference ==
  Complete =>
    \A i \in 1..Len(AllConstructors(schema)) :
      LET c == AllConstructors(schema)[i]
      IN \A k \in 1..Len(c.args) :
           /\ c.args[k].type = Custom(c.type)
                => BoxesReference(schema, FieldType(sb, i, k), c.type)
           /\ c.args[k].type = Vector(Custom(c.type))
                => /\ "Box<" \notin Tokens(FieldType(sb, i, k))
                   /\ ContainsSeq(FieldType(sb, i, k),
                                  <<"Vec<", "Option<">> \o TypeName(schema, c.type))
           /\ (c.args[k].type.type = "Custom" /\ c.args[k].type.custom # c.type)
                => "Box<" \notin Tokens(FieldType(sb, i, k))

\* a run emitted the structures of a schema in which a constructor of Shape
\* has a Custom(Shape) field, another a Vector(Custom(Shape)) field, and the
\* constructor of Node a Custom(Shape) field
C2_Witness ==
  /\ pc = "done"
  /\ Len(schema.custom_types) = 2
  /\ \E i, j \in 1..Len(schema.custom_types[1].constructors) :
       /\ \E k \in 1..Len(schema.custom_types[1].constructors[i].args) :
            /\ schema.custom_types[1].constructors[i].args[k].type = Custom(1)
            /\ BoxesReference(schema, FieldType(sb, i, k), 1)
       /\ \E k \in 1..Len(schema.custom_types[1].constructors[j].args) :
            schema.custom_types[1].constructors[j].args[k].type = Vector(Custom(1))
  /\ \E k \in 1..Len(schema.custom_types[2].constructors) :
       schema.custom_types[2].constructors[k].args[1].type = Custom(1)

\* what every run leaves, whatever the file was before: the file holds the
\* generated buffer once the run is done; a later run generates the same
\* buffer; and a run writes at most once, and only a buffer that differs
\* from the content it read at its start
RunLeavesBuffer ==
  /\ pc = "done" => (file.exists /\ file.content = sb)
  /\ (run >= 2 /\ Complete) => sb = file.content
  /\ writes \in {0, 1}
  /\ Complete => (writes = 1 => sb # old_file_content)
  /\ pc = "done" => (writes = 0 => sb = old_file_content)

\* C4, as claimed: for any prior file state (absent, unreadable or arbitrary
\* content), after a completed run the file content is the generated buffer,
\* and a second run on the same schema produces the same buffer and performs
\* no write; a run writes only a buffer that differs from the content read
\* at its start.
C4_Original ==
  /\ RunLeavesBuffer
  /\ (run >= 2 /\ pc = "done") => writes = 0

\* C4, amended: for any prior file state, after a completed run the file
\* content is the generated buffer, and a second run on the same schema
\* produces the same buffer; it performs no write when it can read the file
\* back (the file was absent or readable before the first run), and writes
\* the same buffer again when the file exists and cannot be read.  A run
\* writes only a buffer that differs from the content read at its start, a
\* failed read counting as empty content.
C4_RegenerationIdempotent ==
  /\ RunLeavesBuffer
  /\ (run >= 2 /\ pc = "done") => (writes = 0 <=> ~read_file_is_error(file))
  /\ (run >= 2 /\ Complete /\ read_file_is_error(file)) => old_file_content = EmptyBuffer

\* a second run on a file that was not there before the first is done and
\* wrote nothing
C4_Witness ==
  /\ run = 2
  /\ pc = "done"
  /\ writes = 0
  /\ file.content = sb
  /\ old_file_content = sb

KnownTags ==
  {"Bool", "Int32", "Int64", "Int53", "Double", "String", "Bytes", "Vector", "Custom"}

\* a field of the schema has a type the projector does not recognise
HasUnrecognisedField(S) ==
  \E i \in 1..Len(Holders(S)) : \E k \in 1..Len(Holders(S)[i].args) :
    Holders(S)[i].args[k].type.type \notin KnownTags

\* no field of the lines is typed with the sentinel text
NoSentinel(lines) ==
  \A i \in 1..Len(lines) : lines[i].k = "field" => "unimplemented" \notin Tokens(lines[i].type)

\* C5: when a field's type is one the projector does not recognise, the run
\* fails: no sentinel type text is emitted into the buffer for the field and
\* no file is written from such a buffer.
C5_UnrecognisedTypeFails ==
  HasUnrecognisedField(schema) =>
    /\ NoSentinel(sb)
    /\ NoSentinel(file.content)
    /\ pc \notin {"compare", "done"}

\* the lifetime parameters of the structures declared under a name
StructDeclLts(b, name) ==
  { IF StructBlocks(b)[i][1].k = "struct_open" THEN StructBlocks(b)[i][1].lt ELSE FALSE :
      i \in {j \in 1..Len(StructBlocks(b)) : StructBlocks(b)[j][1].name = name} }

\* the lifetime parameters of the unions declared under a name
EnumDeclLts(b, name) ==
  { EnumBlocks(b)[i][1].lt :
      i \in {j \in 1..Len(EnumBlocks(b)) : EnumBlocks(b)[j][1].name = name} }

\* the custom type a field type refers to: <<t>>, or <<>> for none
RECURSIVE ReferredCustom(_)
ReferredCustom(type) ==
  CASE type.type = "Custom" -> <<type.custom>>
    [] type.type = "Vector" -> ReferredCustom(type.vector_value_type)
    [] OTHER -> <<>>

\* the declarations a reference to the custom type t resolves to: its union
\* when it has one, else the structure of its name
CustomDeclLts(b, S, t) ==
  IF EnumDeclLts(b, TypeName(S, t)) # {}
    THEN EnumDeclLts(b, TypeName(S, t))
    ELSE StructDeclLts(b, TypeName(S, t))

\* the references of the unions, their From impls and the Object references
\* of the TryFrom and Into impls carry <'a> iff the declaration does
EnumReferencesConsistent(b) ==
  \A i \in 1..Len(b) :
    /\ b[i].k \in {"variant", "impl_from"} =>
         \A lt \in StructDeclLts(b, b[i].payload) : lt = b[i].payload_lt
    /\ b[i].k \in {"impl_from", "try_from_open", "into_open"} =>
         \A lt \in EnumDeclLts(b, b[i].target) : lt = b[i].target_lt
    /\ b[i].k \in {"try_from_open", "into_open"} =>
         \A lt \in EnumDeclLts(b, s_Object) : lt = b[i].object_lt

\* the references of the field types carry <'a> iff the declaration does
FieldReferencesConsistent(b, S) ==
  \A i \in 1..Len(Holders(S)) : \A k \in 1..Len(Holders(S)[i].args) :
    LET ref == ReferredCustom(Holders(S)[i].args[k].type)
    IN ref # <<>> =>
         \A lt \in CustomDeclLts(b, S, ref[1]) :
           lt = ("<'a>" \in Tokens(FieldType(b, i, k)))

\* C9: every emitted reference to a generated structure or union (in a
\* field type, a variant payload, a From impl, and the Object<'a> of the
\* TryFrom and Into impls) carries <'a> iff the declaration of that
\* structure or union is emitted with <'a>, also for schemas without any
\* String or Bytes field.
C9_LifetimesConsistent ==
  Complete => (EnumReferencesConsistent(sb) /\ FieldReferencesConsistent(sb, schema))

\* the constructor names of the schema are pairwise distinct
DistinctConstructorNames(S) ==
  \A i, j \in 1..Len(AllConstructors(S)) :
    i # j => AllConstructors(S)[i].name # AllConstructors(S)[j].name

\* the variant names each union declares are pairwise distinct
VariantNamesDistinct(b) ==
  \A e \in 1..Len(EnumBlocks(b)) :
    \A i, j \in 1..Len(VariantsOf(EnumBlocks(b)[e])) :
      i # j => VariantsOf(EnumBlocks(b)[e])[i][1] # VariantsOf(EnumBlocks(b)[e])[j][1]

\* the variants the Object union declares
ObjectVariants(b) ==
  {VariantsOf(EnumBlocks(b)[Len(EnumBlocks(b)) - 1])[i][1] :
     i \in 1..Len(VariantsOf(EnumBlocks(b)[Len(EnumBlocks(b)) - 1]))}

\* every Object::X of a TryFrom or Into impl is a variant Object declares
ObjectArmsDeclared(b) ==
  \A i \in 1..Len(b) :
    b[i].k \in {"try_from_arm", "into_arm"} => b[i].object_variant \in ObjectVariants(b)

\* C10: for a schema with pairwise distinct constructor names, the variant
\* names declared inside each emitted union are pairwise distinct after
\* prefix stripping, and every Object::X variant named in a TryFrom<Object>
\* or Into<Object> impl is a variant the emitted Object union declares, also
\* for a constructor such as objectFoo.
C10_VariantNamesIntact ==
  (Complete /\ DistinctConstructorNames(schema)) =>
    (VariantNamesDistinct(sb) /\ ObjectArmsDeclared(sb))

====
